---------------------------- MODULE Spec2Model ----------------------------
(***************************************************************************)
(* A model of the roller-coaster data pipeline:                            *)
(*   coasters_scraper.py : get_coaster_titles, extract_infobox_fields,     *)
(*                         scrape_coasters                                 *)
(*   youtuber_data.py    : clean_wiki_text, build_query,                   *)
(*                         yt_fetch_video_stats, build_coaster_videos_csv  *)
(*                                                                         *)
(* Python strings are sequences of pieces (one-character strings, plus a   *)
(* few multi-character literals that the code never looks inside).         *)
(* A Python value that may or may not be a str is a record                 *)
(* [str |-> BOOLEAN, s |-> pieces].                                        *)
(***************************************************************************)
EXTENDS Integers, Sequences, FiniteSets, TLC

VARIABLES
    \* ---- build_query -------------------------------------------------
    q_in,        \* the four arguments of build_query
    q_out,       \* its return value (<<>> before the call)
    q_pc         \* "call" | "done"

queryVars == <<q_in, q_out, q_pc>>

VARIABLES
    \* ---- yt_fetch_video_stats on its own ------------------------------
    s_ids,       \* the video_ids argument
    s_st,        \* loop state: [i, map, reqs, done], see StatsStart
    s_quota,     \* TRUE once a batch failed with a quota error
    s_outs       \* what each request so far did, see StatsOutcomes

statsVars == <<s_ids, s_st, s_quota, s_outs>>

VARIABLES
    \* ---- build_coaster_videos_csv -------------------------------------
    df,          \* the source table read from coasters_csv (fixed)
    out_exists,  \* os.path.exists(out_csv)
    out_csv,     \* the lines of the output file
    processed,   \* the in-memory set of processed titles
    i,           \* index of the next row of df the loop visits
    pc,          \* "idle" | "loop" | "returned" | "raised"
    runs,        \* number of calls started so far
    steps,       \* number of loop iterations run so far, over all calls
    \* history of the current call, for stating properties
    loaded,      \* processed as loaded at the start of the call
    searches,    \* the search requests issued in this call: [idx, q]
    run_rows,    \* number of data rows appended in this call
    stopped,     \* TRUE once a quota error ended the loop of this call
    full1,       \* TRUE when the first call visited every row of df
    last,        \* what the last loop iteration did
    errs,        \* rows whose search failed with another error in this call
    prev_errs    \* errs of the call before this one

loopVars == <<df, out_exists, out_csv, processed, i, pc, runs, steps,
              loaded, searches, run_rows, stopped, full1, last,
              errs, prev_errs>>

VARIABLES
    \* ---- get_coaster_titles -------------------------------------------
    t_env,       \* the listing source and the max_coasters argument
    t_st         \* loop state: [titles, cmcontinue, reqs, pc]

titleVars == <<t_env, t_st>>

VARIABLES
    \* ---- extract_infobox_fields ---------------------------------------
    x_text,      \* the wikitext argument
    x_raw,       \* raw_fields as parsed from the infobox block
    x_out,       \* the mapping returned
    x_pc         \* "call" | "done"

extractVars == <<x_text, x_raw, x_out, x_pc>>

VARIABLES
    \* ---- scrape_coasters ----------------------------------------------
    c_titles,    \* the titles returned by get_coaster_titles
    c_got,       \* per title visited: did the content fetch return text
    c_rows,      \* the list rows
    c_info,      \* the local variable info, <<>> while it is unbound
    c_file,      \* coasters_basic.csv: [exists, fieldnames, rows]
    c_pc         \* "start" | "loop" | "done" | "raised"

scrapeVars == <<c_titles, c_got, c_rows, c_info, c_file, c_pc>>

vars == <<queryVars, statsVars, loopVars, titleVars, extractVars, scrapeVars>>

-----------------------------------------------------------------------------
(* Python values and strings *)

PyStr(s) == [str |-> TRUE, s |-> s]

\* float('nan') as pandas yields for an empty cell, or None: any non-str
NotStr == [str |-> FALSE, s |-> <<>>]

RECURSIVE LStrip(_)
LStrip(s) == IF s # <<>> /\ Head(s) = " " THEN LStrip(Tail(s)) ELSE s

RECURSIVE RStrip(_)
RStrip(s) ==
    IF s # <<>> /\ s[Len(s)] = " " THEN RStrip(SubSeq(s, 1, Len(s) - 1)) ELSE s

\* str.strip()
Strip(s) == RStrip(LStrip(s))

\* first index q >= p with q past the end of s or s[q] \in stop:
\* the end of a greedy run [^stop]* that starts at p
RECURSIVE RunEnd(_, _, _)
RunEnd(s, p, stop) ==
    IF p > Len(s) \/ s[p] \in stop THEN p ELSE RunEnd(s, p + 1, stop)

NoMatch == [ok |-> FALSE, text |-> <<>>, next |-> 0]

\* a match of  \[\[([^|\]]+)\|([^\]]+)\]\]  at position p; text is group 2
PipedLinkAt(s, p) ==
    LET q == RunEnd(s, p + 2, {"|", "]"})
        r == RunEnd(s, q + 1, {"]"})
    IN  IF /\ p + 1 <= Len(s)
           /\ s[p] = "["
           /\ s[p + 1] = "["
           /\ q > p + 2
           /\ q <= Len(s)
           /\ s[q] = "|"
           /\ r > q + 1
           /\ r + 1 <= Len(s)
           /\ s[r] = "]"
           /\ s[r + 1] = "]"
        THEN [ok |-> TRUE, text |-> SubSeq(s, q + 1, r - 1), next |-> r + 2]
        ELSE NoMatch

\* a match of  \[\[([^\]]+)\]\]  at position p; text is group 1
BareLinkAt(s, p) ==
    LET r == RunEnd(s, p + 2, {"]"})
    IN  IF /\ p + 1 <= Len(s)
           /\ s[p] = "["
           /\ s[p + 1] = "["
           /\ r > p + 2
           /\ r + 1 <= Len(s)
           /\ s[r] = "]"
           /\ s[r + 1] = "]"
        THEN [ok |-> TRUE, text |-> SubSeq(s, p + 2, r - 1), next |-> r + 2]
        ELSE NoMatch

\* re.sub(piped link, r"\2", s), scanning from position p
RECURSIVE SubPiped(_, _)
SubPiped(s, p) ==
    IF p > Len(s) THEN <<>>
    ELSE LET m == PipedLinkAt(s, p)
         IN  IF m.ok THEN m.text \o SubPiped(s, m.next)
                     ELSE <<s[p]>> \o SubPiped(s, p + 1)

\* re.sub(bare link, r"\1", s), scanning from position p
RECURSIVE SubBare(_, _)
SubBare(s, p) ==
    IF p > Len(s) THEN <<>>
    ELSE LET m == BareLinkAt(s, p)
         IN  IF m.ok THEN m.text \o SubBare(s, m.next)
                     ELSE <<s[p]>> \o SubBare(s, p + 1)

IsNotBracket(c) == c \notin {"[", "]"}

\* s.replace("[", "").replace("]", "")
RemoveBrackets(s) == SelectSeq(s, IsNotBracket)

clean_wiki_text(v) ==
    IF ~v.str \/ Strip(v.s) = <<>>
    THEN <<>>
    ELSE Strip(RemoveBrackets(SubBare(SubPiped(v.s, 1), 1)))

Quoted(s) == <<"\"">> \o s \o <<"\"">>

RollerCoaster == <<" roller coaster">>

build_query_swapped(title, park, location, country) ==
    LET t == clean_wiki_text(title)
        p == clean_wiki_text(park)
        l == clean_wiki_text(location)
        c == clean_wiki_text(country)
    IN  IF p # <<>> THEN Quoted(t) \o <<" ">> \o Quoted(p) \o RollerCoaster
        ELSE IF c # <<>> THEN Quoted(t) \o <<" ">> \o Quoted(c) \o RollerCoaster
        ELSE IF l # <<>> THEN Quoted(t) \o <<" ">> \o Quoted(l) \o RollerCoaster
        ELSE Quoted(t) \o RollerCoaster

build_query(title, park, location, country) ==
    LET t == clean_wiki_text(title)
        p == clean_wiki_text(park)
        l == clean_wiki_text(location)
        c == clean_wiki_text(country)
    IN  IF p # <<>> THEN Quoted(t) \o <<" ">> \o Quoted(p) \o RollerCoaster
        ELSE IF l # <<>> THEN Quoted(t) \o <<" ">> \o Quoted(l) \o RollerCoaster
        ELSE IF c # <<>> THEN Quoted(t) \o <<" ">> \o Quoted(c) \o RollerCoaster
        ELSE Quoted(t) \o RollerCoaster

-----------------------------------------------------------------------------
(* build_query on its own: the arguments are drawn from QueryArgs *)

QueryArgs ==
    { NotStr,
      PyStr(<<>>),
      PyStr(<<" ">>),
      PyStr(<<"a">>),
      PyStr(<<" ", "b", " ">>),
      PyStr(<<"[", "[", "c", "]", "]">>),
      PyStr(<<"[", "[", "c", "|", "d", "]", "]">>),
      PyStr(<<"[", "]">>) }

QueryInit ==
    /\ q_in \in [title : QueryArgs, park : QueryArgs,
                 location : QueryArgs, country : QueryArgs]
    /\ q_out = <<>>
    /\ q_pc = "call"

CallBuildQuery ==
    /\ q_pc = "call"
    /\ q_out' = build_query(q_in.title, q_in.park, q_in.location, q_in.country)
    /\ q_pc' = "done"
    /\ UNCHANGED q_in

-----------------------------------------------------------------------------
(* The video API's errors and is_quota_exceeded *)

QuotaReasons == {"quotaExceeded", "dailyLimitExceeded", "rateLimitExceeded"}

Reasons == QuotaReasons \cup {"backendError"}

\* An HttpError: json says whether e.content parses to a payload with
\* error.errors[0]; reason is that entry's reason; text is the reason
\* word that str(e) contains.
HttpErrors ==
    { e \in [json : BOOLEAN, reason : Reasons, text : Reasons] :
        IF e.json THEN e.text = e.reason ELSE e.reason = "backendError" }

is_quota_exceeded(e) ==
    IF e.json THEN e.reason \in QuotaReasons ELSE e.text \in QuotaReasons

-----------------------------------------------------------------------------
(* yt_fetch_video_stats *)

BatchSize == 50

\* a count that is None
None == -1

Min(a, b) == IF a < b THEN a ELSE b

\* a raw statistics value of the API: a string of digits (n), or a
\* missing, empty or non-digit value
RawCounts(maxView) ==
    {[digits |-> FALSE, n |-> 0]} \cup {[digits |-> TRUE, n |-> k] : k \in 0..maxView}

\* int(view) if view and view.isdigit() else None
ParseCount(raw) == IF raw.digits THEN raw.n ELSE None

EmptyMap == [v \in {} |-> None]

\* the state of the batch loop before its first iteration
StatsStart(ids) ==
    [i |-> 0, map |-> EmptyMap, reqs |-> <<>>, done |-> Len(ids) = 0]

\* A slice one id short of the batch size.
BatchAt_short(ids, k) == SubSeq(ids, k + 1, Min(k + BatchSize - 1, Len(ids)))

\* video_ids[i:i + 50]
BatchAt(ids, k) == SubSeq(ids, k + 1, Min(k + BatchSize, Len(ids)))

\* for it in resp["items"]: stats_map[vid] = {...}
Accumulate(map, items) ==
    [v \in DOMAIN map \cup DOMAIN items |->
        IF v \in DOMAIN items THEN ParseCount(items[v]) ELSE map[v]]

\* An iteration that treats a quota error like any other error.
StatsStep_goes_on(ids, st, out) ==
    LET sent == [st EXCEPT !.reqs = Append(@, BatchAt(ids, st.i))]
        next == st.i + BatchSize
    IN  IF out.kind = "error"
        THEN [sent EXCEPT !.i = next, !.done = next >= Len(ids)]
        ELSE [sent EXCEPT !.i = next, !.done = next >= Len(ids),
                          !.map = Accumulate(@, out.items)]

\* One iteration of the batch loop. out is what the request did:
\* [kind |-> "ok", items |-> id :> raw count] or [kind |-> "error", err |-> e].
StatsStep(ids, st, out) ==
    LET sent == [st EXCEPT !.reqs = Append(@, BatchAt(ids, st.i))]
        next == st.i + BatchSize
    IN  IF out.kind = "error"
        THEN IF is_quota_exceeded(out.err)
             THEN [sent EXCEPT !.done = TRUE]
             ELSE [sent EXCEPT !.i = next, !.done = next >= Len(ids)]
        ELSE [sent EXCEPT !.i = next, !.done = next >= Len(ids),
                          !.map = Accumulate(@, out.items)]

\* the whole call: outs[k] is what the k-th request does
RECURSIVE StatsLoop(_, _, _)
StatsLoop(ids, st, outs) ==
    IF st.done \/ outs = <<>> THEN st
    ELSE StatsLoop(ids, StatsStep(ids, st, Head(outs)), Tail(outs))

yt_fetch_video_stats(ids, outs) == StatsLoop(ids, StatsStart(ids), outs).map

Range(f) == {f[x] : x \in DOMAIN f}

\* what a statistics request can do: fail with an HttpError, or answer
\* with one of answers (each maps the ids found to their raw viewCount)
StatsOutcomes(answers) ==
    {[kind |-> "error", err |-> e, items |-> EmptyMap] : e \in HttpErrors}
    \cup {[kind |-> "ok", err |-> CHOOSE e \in HttpErrors : TRUE, items |-> f] :
             f \in answers}

\* every answer that finds a subset of idset, with raw counts in counts
AllAnswers(idset, counts) ==
    UNION {[S -> counts] : S \in SUBSET idset}

-----------------------------------------------------------------------------
(* yt_fetch_video_stats on its own, one batch per step *)

MaxIds == 120

Ids(n) == [k \in 1..n |-> k]

StatsInit ==
    /\ s_ids \in {Ids(n) : n \in 0..MaxIds}
    /\ s_st = StatsStart(s_ids)
    /\ s_quota = FALSE
    /\ s_outs = <<>>

\* the answers tried for a batch: every id found, all with the same raw
\* count, or no id found
UniformAnswers(batch) ==
    {[v \in Range(batch) |-> raw] : raw \in RawCounts(1)} \cup {EmptyMap}

StatsBatch ==
    /\ ~s_st.done
    /\ \E out \in StatsOutcomes(UniformAnswers(BatchAt(s_ids, s_st.i))) :
         /\ s_st' = StatsStep(s_ids, s_st, out)
         /\ s_quota' = (s_quota \/ (out.kind = "error" /\ is_quota_exceeded(out.err)))
         /\ s_outs' = Append(s_outs, out)
    /\ UNCHANGED s_ids

-----------------------------------------------------------------------------
(* build_coaster_videos_csv: the resumable ranking loop *)

\* Bounds: calls of build_coaster_videos_csv on the same files, and loop
\* iterations over all of them
MaxRuns == 2
MaxSteps == 4

\* top_k_by_views of the calls
TopK == 1

NaN == NotStr

\* str(r.get(col, "")).strip(): str(float('nan')) is "nan"
CellStr(cell) == Strip(IF cell.str THEN cell.s ELSE <<"n", "a", "n">>)

\* values pandas.read_csv reads as NaN (some of its default na_values)
NaStrings == { <<>>, <<"n", "a", "n">>, <<"N", "A">> }

\* rows of the source table: a cell is a str that read_csv keeps, or NaN
Entities ==
    { [title |-> PyStr(<<"a">>), park |-> PyStr(<<"p">>),
       location |-> NaN, country |-> NaN],
      [title |-> PyStr(<<"[", "[", "a", "]", "]">>), park |-> PyStr(<<" ">>),
       location |-> PyStr(<<"l">>), country |-> NaN],
      [title |-> NaN, park |-> PyStr(<<" ">>),
       location |-> PyStr(<<" ">>), country |-> PyStr(<<"[", "[", "c", "]", "]">>)] }

\* the source tables: none, one or two rows
Tables == {<<>>} \cup {<<e>> : e \in Entities} \cup (Entities \X Entities)

\* the header line and a data line of the output file
HeaderLine ==
    [header |-> TRUE, coaster_title |-> <<"coaster_title">>,
     video_id |-> 0, view_count |-> None]

DataLine(title, vid, views) ==
    [header |-> FALSE, coaster_title |-> title, video_id |-> vid, view_count |-> views]

\* pd.read_csv(out_csv, usecols=["coaster_title"]) succeeds when the
\* first line names the column
CanReadTitles(lines) == lines # <<>> /\ lines[1].header

\* set(existing["coaster_title"].dropna().astype(str).unique())
ReadTitles(lines) == {lines[k].coaster_title : k \in 2..Len(lines)} \ NaStrings

\* lines 140-147: read_ok is FALSE when reading the file raises
LoadProcessed(exists, lines, read_ok) ==
    IF exists /\ read_ok /\ CanReadTitles(lines) THEN ReadTitles(lines) ELSE {}

\* coaster_title_clean of row k of df
CleanTitle(k) == clean_wiki_text(PyStr(CellStr(df[k].title)))

\* build_query(title, park, location, country) for row k of df
QueryOf(k) ==
    build_query(PyStr(CellStr(df[k].title)), PyStr(CellStr(df[k].park)),
                PyStr(CellStr(df[k].location)), PyStr(CellStr(df[k].country)))

HasVideoId(v) == v # 0

\* the candidates of a search response; an item is its videoId, 0 when
\* the item has none
yt_search_candidates(items) == SelectSeq(items, HasVideoId)

\* sorted(S)
RECURSIVE Sorted(_)
Sorted(S) ==
    IF S = {} THEN <<>>
    ELSE LET m == CHOOSE x \in S : \A y \in S : x <= y
         IN  <<m>> \o Sorted(S \ {m})

\* lines 194-210: one row per candidate, statistics merged in
BuildRows(title, cands, stats_map) ==
    [k \in 1..Len(cands) |->
        DataLine(title, cands[k],
                 IF cands[k] \in DOMAIN stats_map THEN stats_map[cands[k]] ELSE None)]

\* view_count.fillna(0)
SortKey(row) == IF row.view_count = None THEN 0 ELSE row.view_count

Orders_ascending(rows) ==
    { p \in Permutations(1..Len(rows)) :
        \A j, k \in 1..Len(rows) : j < k => SortKey(rows[p[j]]) <= SortKey(rows[p[k]]) }

\* sort_values("view_count_sort", ascending=False): the orders a sort
\* that need not be stable can give
Orders(rows) ==
    { p \in Permutations(1..Len(rows)) :
        \A j, k \in 1..Len(rows) : j < k => SortKey(rows[p[j]]) >= SortKey(rows[p[k]]) }

\* .head(top_k_by_views) of the rows in order p
TopRows(rows, p, k) == [j \in 1..Min(k, Len(rows)) |-> rows[p[j]]]

\* An append that writes the header every time.
AppendCsv_with_header(exists, lines, rows) == lines \o <<HeaderLine>> \o rows

\* to_csv(out_csv, mode="a", header=not os.path.exists(out_csv))
AppendCsv(exists, lines, rows) ==
    lines \o (IF exists THEN <<>> ELSE <<HeaderLine>>) \o rows

Continue_instead(k, n) == k + 1

\* break: the loop is left, no further row is visited
Break(k, n) == n + 1

NoLast ==
    [kind |-> "none", idx |-> 0, cands |-> <<>>, stats_quota |-> FALSE,
     stats_reqs |-> <<>>, rows |-> <<>>, appended |-> <<>>, before |-> <<>>]

LoopInit(tables) ==
    /\ df \in tables
    /\ out_exists = FALSE
    /\ out_csv = <<>>
    /\ processed = {}
    /\ i = 1
    /\ pc = "idle"
    /\ runs = 0
    /\ steps = 0
    /\ loaded = {}
    /\ searches = <<>>
    /\ run_rows = 0
    /\ stopped = FALSE
    /\ full1 = FALSE
    /\ last = NoLast
    /\ errs = {}
    /\ prev_errs = {}

\* lines 130-150: the call starts; api_key is whether YOUTUBE_API_KEY is set
StartRun(maxRuns) ==
    /\ pc # "loop"
    /\ runs < maxRuns
    /\ runs' = runs + 1
    /\ \E api_key \in BOOLEAN, read_ok \in BOOLEAN :
         /\ pc' = IF api_key THEN "loop" ELSE "raised"
         /\ processed' = IF api_key THEN LoadProcessed(out_exists, out_csv, read_ok)
                                    ELSE {}
    /\ loaded' = processed'
    /\ i' = 1
    /\ searches' = <<>>
    /\ run_rows' = 0
    /\ stopped' = FALSE
    /\ last' = NoLast
    /\ prev_errs' = errs
    /\ errs' = {}
    /\ UNCHANGED <<df, out_exists, out_csv, steps, full1>>

InLoop == pc = "loop" /\ i <= Len(df) /\ steps < MaxSteps

\* lines 158-161
Skip ==
    /\ InLoop
    /\ steps' = steps + 1
    /\ CleanTitle(i) \in processed
    /\ i' = i + 1
    /\ last' = [NoLast EXCEPT !.kind = "skip", !.idx = i, !.before = out_csv]
    /\ UNCHANGED <<df, out_exists, out_csv, processed, pc, runs,
                   loaded, searches, run_rows, stopped, full1, errs, prev_errs>>

Searched == Append(searches, [idx |-> i, q |-> QueryOf(i)])

\* lines 167-172: the search raises an HttpError that is a quota error
SearchQuota ==
    /\ InLoop
    /\ steps' = steps + 1
    /\ CleanTitle(i) \notin processed
    /\ \E e \in HttpErrors : is_quota_exceeded(e)
    /\ searches' = Searched
    /\ i' = Break(i, Len(df))
    /\ stopped' = TRUE
    /\ last' = [NoLast EXCEPT !.kind = "search_quota", !.idx = i, !.before = out_csv]
    /\ UNCHANGED <<df, out_exists, out_csv, processed, pc, runs,
                   loaded, run_rows, full1, errs, prev_errs>>

\* A handler that marks the title as processed after another error.
SearchError_marks ==
    /\ InLoop
    /\ steps' = steps + 1
    /\ CleanTitle(i) \notin processed
    /\ \E e \in HttpErrors : ~is_quota_exceeded(e)
    /\ searches' = Searched
    /\ processed' = processed \cup {CleanTitle(i)}
    /\ i' = i + 1
    /\ last' = [NoLast EXCEPT !.kind = "search_error", !.idx = i, !.before = out_csv]
    /\ errs' = errs \cup {i}
    /\ UNCHANGED <<df, out_exists, out_csv, pc, runs,
                   loaded, run_rows, stopped, full1, prev_errs>>

\* lines 167-175: the search raises another HttpError
SearchError ==
    /\ InLoop
    /\ steps' = steps + 1
    /\ CleanTitle(i) \notin processed
    /\ \E e \in HttpErrors : ~is_quota_exceeded(e)
    /\ searches' = Searched
    /\ i' = i + 1
    /\ last' = [NoLast EXCEPT !.kind = "search_error", !.idx = i, !.before = out_csv]
    /\ errs' = errs \cup {i}
    /\ UNCHANGED <<df, out_exists, out_csv, processed, pc, runs,
                   loaded, run_rows, stopped, full1, prev_errs>>

\* An iteration that leaves the title unmarked when nothing was found.
NoCandidates_unmarked(responses) ==
    /\ InLoop
    /\ steps' = steps + 1
    /\ CleanTitle(i) \notin processed
    /\ \E items \in responses : yt_search_candidates(items) = <<>>
    /\ searches' = Searched
    /\ i' = i + 1
    /\ last' = [NoLast EXCEPT !.kind = "no_candidates", !.idx = i, !.before = out_csv]
    /\ UNCHANGED <<df, out_exists, out_csv, processed, pc, runs,
                   loaded, run_rows, stopped, full1, errs, prev_errs>>

\* lines 177-180: the search answers and no item has a video id
NoCandidates(responses) ==
    /\ InLoop
    /\ steps' = steps + 1
    /\ CleanTitle(i) \notin processed
    /\ \E items \in responses : yt_search_candidates(items) = <<>>
    /\ searches' = Searched
    /\ processed' = processed \cup {CleanTitle(i)}
    /\ i' = i + 1
    /\ last' = [NoLast EXCEPT !.kind = "no_candidates", !.idx = i, !.before = out_csv]
    /\ UNCHANGED <<df, out_exists, out_csv, pc, runs,
                   loaded, run_rows, stopped, full1, errs, prev_errs>>

\* lines 182-225: statistics, rows, top K, append, mark processed.
\* A search returns at most 50 items, so the statistics are one batch;
\* yt_fetch_video_stats catches every HttpError itself (lines 91-97), so
\* the handler of lines 186-191 is never entered.
RankAndAppend(responses, counts, k) ==
    /\ InLoop
    /\ steps' = steps + 1
    /\ CleanTitle(i) \notin processed
    /\ \E items \in responses :
         LET cands == yt_search_candidates(items)
             video_ids == Sorted(Range(cands))
         IN  /\ cands # <<>>
             /\ \E out \in StatsOutcomes(AllAnswers(Range(video_ids), counts)) :
                  LET stats_map == yt_fetch_video_stats(video_ids, <<out>>)
                      rows == BuildRows(CleanTitle(i), cands, stats_map)
                  IN  \E p \in Orders(rows) :
                        LET top == TopRows(rows, p, k)
                        IN  /\ out_csv' = AppendCsv(out_exists, out_csv, top)
                            /\ run_rows' = run_rows + Len(top)
                            /\ last' = [kind |-> "append", idx |-> i, cands |-> cands,
                                        stats_quota |-> (out.kind = "error"
                                                         /\ is_quota_exceeded(out.err)),
                                        stats_reqs |->
                                            StatsLoop(video_ids, StatsStart(video_ids),
                                                      <<out>>).reqs,
                                        rows |-> rows, appended |-> top,
                                        before |-> out_csv]
    /\ out_exists' = TRUE
    /\ searches' = Searched
    /\ processed' = processed \cup {CleanTitle(i)}
    /\ i' = i + 1
    /\ UNCHANGED <<df, pc, runs, loaded, stopped, full1, errs, prev_errs>>

\* line 227: the loop is over and the call returns
Return ==
    /\ pc = "loop"
    /\ i > Len(df)
    /\ pc' = "returned"
    /\ full1' = IF runs = 1 THEN ~stopped ELSE full1
    /\ UNCHANGED <<df, out_exists, out_csv, processed, i, runs, steps,
                   loaded, searches, run_rows, stopped, last, errs, prev_errs>>

\* the search responses of the main specification: no item, an item
\* without a video id, two candidates
MainResponses == {<<>>, <<0>>, <<1, 2>>}

\* the raw view counts of the main specification
MainCounts == {[digits |-> TRUE, n |-> 1]}

-----------------------------------------------------------------------------
(* Specifications *)

QueryIdle == q_in = <<>> /\ q_out = <<>> /\ q_pc = "idle"

StatsIdle ==
    s_ids = <<>> /\ s_st = StatsStart(<<>>) /\ s_quota = FALSE /\ s_outs = <<>>

LoopIdle ==
    /\ df = <<>> /\ out_exists = FALSE /\ out_csv = <<>> /\ processed = {}
    /\ i = 1 /\ pc = "off" /\ runs = 0 /\ steps = 0 /\ loaded = {} /\ searches = <<>>
    /\ run_rows = 0 /\ stopped = FALSE /\ full1 = FALSE /\ last = NoLast
    /\ errs = {} /\ prev_errs = {}

TitlesIdle == t_env = <<>> /\ t_st = <<>>

ExtractIdle == x_text = <<>> /\ x_raw = <<>> /\ x_out = <<>> /\ x_pc = "idle"

ScrapeIdle ==
    /\ c_titles = <<>> /\ c_got = <<>> /\ c_rows = <<>> /\ c_info = <<>>
    /\ c_file = <<>> /\ c_pc = "idle"

notLoop == <<queryVars, statsVars, titleVars, extractVars, scrapeVars>>
notQuery == <<statsVars, loopVars, titleVars, extractVars, scrapeVars>>
notStats == <<queryVars, loopVars, titleVars, extractVars, scrapeVars>>
notTitles == <<queryVars, statsVars, loopVars, extractVars, scrapeVars>>
notExtract == <<queryVars, statsVars, loopVars, titleVars, scrapeVars>>
notScrape == <<queryVars, statsVars, loopVars, titleVars, extractVars>>

\* the ranking loop, called up to MaxRuns times on the same files
Init ==
    /\ LoopInit(Tables)
    /\ QueryIdle /\ StatsIdle /\ TitlesIdle /\ ExtractIdle /\ ScrapeIdle

Next ==
    \/ StartRun(MaxRuns) /\ UNCHANGED notLoop
    \/ Skip /\ UNCHANGED notLoop
    \/ SearchQuota /\ UNCHANGED notLoop
    \/ SearchError /\ UNCHANGED notLoop
    \/ NoCandidates(MainResponses) /\ UNCHANGED notLoop
    \/ RankAndAppend(MainResponses, MainCounts, TopK)
         /\ UNCHANGED notLoop
    \/ Return /\ UNCHANGED notLoop

Spec == Init /\ [][Next]_vars

\* build_query alone
InitQuery ==
    /\ QueryInit
    /\ StatsIdle /\ LoopIdle /\ TitlesIdle /\ ExtractIdle /\ ScrapeIdle

NextQuery == CallBuildQuery /\ UNCHANGED notQuery

SpecQuery == InitQuery /\ [][NextQuery]_vars

\* yt_fetch_video_stats alone
InitStats ==
    /\ StatsInit
    /\ QueryIdle /\ LoopIdle /\ TitlesIdle /\ ExtractIdle /\ ScrapeIdle

NextStats == StatsBatch /\ UNCHANGED notStats

SpecStats == InitStats /\ [][NextStats]_vars

\* the ranking of one entity's candidates: a single call on a one-row table
MaxCandidates == 4
MaxView == 2
RankTopK == 2

\* search responses whose items all carry distinct video ids
RankResponses == {Ids(n) : n \in 1..MaxCandidates}

InitRank ==
    /\ LoopInit({<<e>> : e \in Entities})
    /\ QueryIdle /\ StatsIdle /\ TitlesIdle /\ ExtractIdle /\ ScrapeIdle

NextRank ==
    \/ StartRun(1) /\ UNCHANGED notLoop
    \/ RankAndAppend(RankResponses, RawCounts(MaxView), RankTopK)
         /\ UNCHANGED notLoop
    \/ Return /\ UNCHANGED notLoop

SpecRank == InitRank /\ [][NextRank]_vars

-----------------------------------------------------------------------------
(* Properties of the ranking loop *)

\* the data rows of the output file whose coaster_title is t
RowsOf(t) == {k \in 1..Len(out_csv) : ~out_csv[k].header /\ out_csv[k].coaster_title = t}

FileTitles == {out_csv[k].coaster_title : k \in 1..Len(out_csv)}

\* C1: in a second call that follows a first call which visited every row
\* of the source table, no row is appended and every row's cleaned title
\* is in the processed set loaded at the start of the call.
C1_ResumeIdempotent ==
    (runs = 2 /\ full1 /\ pc \in {"loop", "returned"}) =>
        /\ run_rows = 0
        /\ \A k \in 1..Len(df) : CleanTitle(k) \in loaded

\* C2: the output file never holds more than top_k_by_views rows for one
\* cleaned title.
C2_AtMostTopKPerTitle ==
    \A t \in FileTitles : Cardinality(RowsOf(t)) <= TopK

\* C3: once the statistics request of an iteration failed with a quota
\* error the loop is over, nothing was appended for that entity and its
\* title is not in the processed set.
C3_StatsQuotaAborts ==
    last.stats_quota =>
        /\ stopped
        /\ i > Len(df)
        /\ out_csv = last.before
        /\ CleanTitle(last.idx) \notin processed

\* C4: once a search failed with a quota error the loop is over and the
\* call does not raise: that search is the last one of the call, nothing
\* was appended for its entity and the file is as it was before it.
C4_SearchQuotaStops ==
    stopped =>
        /\ last.kind = "search_quota"
        /\ i > Len(df)
        /\ pc \in {"loop", "returned"}
        /\ searches # <<>>
        /\ searches[Len(searches)].idx = last.idx
        /\ out_csv = last.before
        /\ CleanTitle(last.idx) \notin processed \ loaded

\* a quota error at the search for the first of two entities, with rows
\* of an earlier call in the file, and the call has returned
C4_Witness ==
    /\ stopped
    /\ pc = "returned"
    /\ last.idx < Len(df)
    /\ Len(out_csv) > 1

ViewOf(row) == IF row.view_count = None THEN 0 ELSE row.view_count

\* C7: the rows appended for an entity are min(K, n) of its n candidate
\* rows, in descending order of view count (None counting as 0), and no
\* candidate left out has more views than one that was written.
C7_TopKByViews ==
    last.kind = "append" =>
        LET rows == last.rows
            app == last.appended
            n == Len(rows)
            m == Len(app)
        IN  /\ m = Min(RankTopK, n)
            /\ \A j, k \in 1..m : j < k => ViewOf(app[j]) >= ViewOf(app[k])
            /\ \E f \in [1..m -> 1..n] :
                 /\ \A j, k \in 1..m : j # k => f[j] # f[k]
                 /\ \A j \in 1..m : app[j] = rows[f[j]]
                 /\ \A k \in (1..n) \ Range(f) :
                      \A j \in 1..m : ViewOf(rows[k]) <= ViewOf(app[j])
            /\ SubSeq(out_csv, Len(out_csv) - m + 1, Len(out_csv)) = app

\* four candidates with views 1, None, 2, 0 and K = 2: rows 2, 1 written
C7_Witness ==
    /\ last.kind = "append"
    /\ [k \in 1..Len(last.rows) |-> last.rows[k].view_count] = <<1, None, 2, 0>>
    /\ [k \in 1..Len(last.appended) |-> last.appended[k].view_count] = <<2, 1>>

-----------------------------------------------------------------------------
(* Properties of build_query and yt_fetch_video_stats *)

\* C9: build_query quotes the cleaned title, then the first non-empty of
\* the cleaned park, location, country (in that order), then the words
\* roller coaster; with no non-empty context only the title is quoted.
C9_QueryContextPriority ==
    q_pc = "done" =>
        LET t == clean_wiki_text(q_in.title)
            ctx == << clean_wiki_text(q_in.park), clean_wiki_text(q_in.location),
                      clean_wiki_text(q_in.country) >>
            ne == {k \in 1..3 : ctx[k] # <<>>}
        IN  IF ne = {}
            THEN q_out = <<"\"">> \o t \o <<"\"", " roller coaster">>
            ELSE LET first == CHOOSE k \in ne : \A j \in ne : k <= j
                 IN  q_out = <<"\"">> \o t \o <<"\"", " ", "\"">> \o ctx[first]
                               \o <<"\"", " roller coaster">>

\* title [[c|d]], no park, location " b ", country a: "d" "b" roller coaster
C9_Witness ==
    /\ q_pc = "done"
    /\ q_in.title = PyStr(<<"[", "[", "c", "|", "d", "]", "]">>)
    /\ q_in.park = PyStr(<<" ">>)
    /\ q_in.location = PyStr(<<" ", "b", " ">>)
    /\ q_in.country = PyStr(<<"a">>)
    /\ q_out = <<"\"", "d", "\"", " ", "\"", "b", "\"", " roller coaster">>

RECURSIVE Concat(_)
Concat(ss) == IF ss = <<>> THEN <<>> ELSE Head(ss) \o Concat(Tail(ss))

\* C10: every statistics request carries 1 to 50 ids and the requests are
\* consecutive slices of the input; when the call ends without a quota
\* error there are ceil(n/50) of them and together they are the input.
C10_StatsBatches ==
    LET n == Len(s_ids)
        reqs == s_st.reqs
    IN  /\ \A k \in 1..Len(reqs) :
             /\ Len(reqs[k]) \in 1..50
             /\ reqs[k] = [j \in 1..Len(reqs[k]) |-> s_ids[50 * (k - 1) + j]]
        /\ (s_st.done /\ ~s_quota) =>
             /\ Len(reqs) * 50 >= n
             /\ (Len(reqs) - 1) * 50 < n \/ (n = 0 /\ reqs = <<>>)
             /\ Concat(reqs) = s_ids

\* 120 ids, the second request failed with another error: 3 requests
C10_Witness ==
    /\ Len(s_ids) = 120
    /\ s_st.done
    /\ ~s_quota
    /\ Len(s_st.reqs) = 3
    /\ DOMAIN s_st.map = (1..50) \cup (101..120)

QuotaFailure(out) == out.kind = "error" /\ is_quota_exceeded(out.err)

OtherFailure(out) == out.kind = "error" /\ ~is_quota_exceeded(out.err)

\* the statistics of the requests of outs that succeeded
SucceededStats(outs) ==
    LET ok == {k \in 1..Len(outs) : outs[k].kind = "ok"}
        has(v) == {k \in ok : v \in DOMAIN outs[k].items}
        latest(v) == CHOOSE k \in has(v) : \A j \in has(v) : j <= k
    IN  [v \in UNION {DOMAIN outs[k].items : k \in ok} |->
            ParseCount(outs[latest(v)].items[v])]

\* C11: a statistics request that fails with a quota error is the last
\* request of the call, and the mapping is exactly the statistics of the
\* requests that succeeded; after a request that fails with another
\* error the mapping has gained nothing and, if ids remain, the next
\* batch is requested.
C11_StatsErrors ==
    LET n == Len(s_outs)
    IN  /\ Len(s_st.reqs) = n
        /\ s_st.map = SucceededStats(s_outs)
        /\ \A k \in 1..n :
             QuotaFailure(s_outs[k]) => k = n /\ s_st.done
        /\ \A k \in 1..n :
             (OtherFailure(s_outs[k]) /\ k * 50 < Len(s_ids)) =>
                IF k = n
                THEN ~s_st.done /\ s_st.i = k * 50
                ELSE Head(s_st.reqs[k + 1]) = s_ids[k * 50 + 1]

\* 120 ids: the first request succeeds, the second fails with another
\* error, the third with a quota error
C11_Witness ==
    /\ Len(s_ids) = 120
    /\ Len(s_outs) = 3
    /\ s_outs[1].kind = "ok" /\ DOMAIN s_outs[1].items = 1..50
    /\ OtherFailure(s_outs[2])
    /\ QuotaFailure(s_outs[3])
    /\ s_st.done
    /\ DOMAIN s_st.map = 1..50

\* the cleaned titles of the rows searched in this call
SearchedTitles == {CleanTitle(searches[k].idx) : k \in 1..Len(searches)}

\* an iteration whose search failed with another error leaves the file
\* and the Processed-Set alone and moves to the next row
SearchErrorStep ==
    last.kind = "search_error" =>
        /\ out_csv = last.before
        /\ CleanTitle(last.idx) \notin processed
        /\ i = last.idx + 1
        /\ ~stopped

\* a call that follows another one and has visited every row of df
NextRunComplete == pc = "returned" /\ runs >= 2 /\ ~stopped

\* C12 as stated: after a search that failed with a non-quota error no
\* row is written, the title is not processed and the loop moves on, and
\* the next call over the same files searches that title again.
C12_RetriedNextRun ==
    /\ SearchErrorStep
    /\ NextRunComplete =>
          \A k \in prev_errs : CleanTitle(k) \in SearchedTitles

\* C12, amended: after a search that failed with a non-quota error no
\* row is written, the title is not processed and the loop moves on; the
\* next call over the same files searches that title again unless the
\* Processed-Set it loads holds the title, that is unless another row
\* with the same cleaned title was ranked after the failure.
C12_RetriedUnlessLoaded ==
    /\ SearchErrorStep
    /\ NextRunComplete =>
          \A k \in prev_errs :
              CleanTitle(k) \in loaded \/ CleanTitle(k) \in SearchedTitles

\* the second call has searched again a row whose search failed in the
\* first call
C12_Witness ==
    /\ NextRunComplete
    /\ \E k \in prev_errs :
         /\ CleanTitle(k) \notin loaded
         /\ \E j \in 1..Len(searches) : searches[j].idx = k

\* C13: after an iteration whose search returned no candidate the
\* cleaned title is in the Processed-Set, no statistics request was
\* issued, the file is as it was, and the loop is at the next row.
C13_NoCandidatesMarked ==
    last.kind = "no_candidates" =>
        /\ CleanTitle(last.idx) \in processed
        /\ last.stats_reqs = <<>>
        /\ out_csv = last.before
        /\ i = last.idx + 1
        /\ ~stopped

\* a search found nothing for the first of two rows, before any append
C13_Witness ==
    /\ last.kind = "no_candidates"
    /\ pc = "loop"
    /\ last.idx = 1
    /\ Len(df) = 2
    /\ out_csv = <<>>
    /\ processed = {CleanTitle(1)}

\* C15: the output file, once an append has created it, has one header
\* line and it is the first line; before that there is no file.
C15_OneHeader ==
    IF out_exists
    THEN /\ Len(out_csv) >= 1
         /\ out_csv[1].header
         /\ \A k \in 2..Len(out_csv) : ~out_csv[k].header
    ELSE out_csv = <<>>

\* the second call has appended to the file that the first call created
C15_Witness ==
    /\ runs = 2
    /\ last.kind = "append"
    /\ last.before # <<>>
    /\ run_rows = 1
    /\ Len(out_csv) = 3
    /\ out_csv[1].header

-----------------------------------------------------------------------------
(* get_coaster_titles *)

\* the largest cmlimit the code asks for
PageCap == 50

\* Bounds: members of the category, and the max_coasters argument
MaxMembers == 52
MaxCount == 52

\* page sizes of the listing source
ServerPages == {7, 60}

\* A listing source: the category has members 1..K, served in that order,
\* at most P per response; honors says whether it also keeps to cmlimit.
TitleEnvs ==
    [K : 0..MaxMembers, P : ServerPages, honors : BOOLEAN, max_coasters : 0..MaxCount]

\* The response to a listing request. cmcontinue is the number of members
\* served before (0: the request carries no token); continue is the token
\* of the response, 0 when it has no "continue" key. A token is handed out
\* exactly when members remain, and then at least one member was served,
\* so a token is never 0.
ListingResponse(env, cmlimit, cmcontinue) ==
    LET size == IF env.honors THEN Min(cmlimit, env.P) ELSE env.P
        count == Min(size, env.K - cmcontinue)
    IN  [members |-> [j \in 1..count |-> cmcontinue + j],
         continue |-> IF cmcontinue + count < env.K THEN cmcontinue + count ELSE 0]

TitlesStart == [titles |-> <<>>, cmcontinue |-> 0, reqs |-> <<>>, pc |-> "while"]

TakeMembers_all(titles, members, max) == titles \o members

\* lines 36-39: append the members until max_coasters titles are held
TakeMembers(titles, members, max) ==
    titles \o SubSeq(members, 1, Min(Len(members), max - Len(titles)))

\* lines 42-46: the token of the next request
NextToken(old, continue) == IF continue # 0 THEN continue ELSE old

\* lines 19-46: one iteration of the while loop
TitlesStep(env, st) ==
    LET cmlimit == Min(PageCap, env.max_coasters - Len(st.titles))
        resp == ListingResponse(env, cmlimit, st.cmcontinue)
    IN  [titles |-> TakeMembers(st.titles, resp.members, env.max_coasters),
         cmcontinue |-> NextToken(st.cmcontinue, resp.continue),
         reqs |-> Append(st.reqs, [cmlimit |-> cmlimit, cmcontinue |-> st.cmcontinue]),
         pc |-> IF resp.continue # 0 THEN "while" ELSE "returned"]

\* A loop condition that also holds once max_coasters titles are held.
TitlesWanted_inclusive(env, st) == Len(st.titles) <= env.max_coasters

\* line 18: the loop condition
TitlesWanted(env, st) == Len(st.titles) < env.max_coasters

\* the whole call, from loop state st on
RECURSIVE TitlesLoop(_, _)
TitlesLoop(env, st) ==
    IF st.pc = "returned" THEN st
    ELSE IF TitlesWanted(env, st) THEN TitlesLoop(env, TitlesStep(env, st))
    ELSE [st EXCEPT !.pc = "returned"]

get_coaster_titles(env) == TitlesLoop(env, TitlesStart).titles

TitlesInit ==
    /\ t_env \in TitleEnvs
    /\ t_st = TitlesStart

FetchPage ==
    /\ t_st.pc = "while"
    /\ TitlesWanted(t_env, t_st)
    /\ t_st' = TitlesStep(t_env, t_st)
    /\ UNCHANGED t_env

ReturnTitles ==
    /\ t_st.pc = "while"
    /\ ~TitlesWanted(t_env, t_st)
    /\ t_st' = [t_st EXCEPT !.pc = "returned"]
    /\ UNCHANGED t_env

InitTitles ==
    /\ TitlesInit
    /\ QueryIdle /\ StatsIdle /\ LoopIdle /\ ExtractIdle /\ ScrapeIdle

NextTitles ==
    \/ FetchPage /\ UNCHANGED notTitles
    \/ ReturnTitles /\ UNCHANGED notTitles

SpecTitles == InitTitles /\ [][NextTitles]_vars

\* C5: get_coaster_titles returns the first min(max_count, K) members of
\* the listing, in the order served and without duplicates.
C5_TitlesPrefix ==
    t_st.pc = "returned" =>
        LET n == IF t_env.max_coasters < t_env.K THEN t_env.max_coasters ELSE t_env.K
        IN  /\ Len(t_st.titles) = n
            /\ \A k \in 1..n : t_st.titles[k] = k
            /\ \A j, k \in 1..Len(t_st.titles) : j # k => t_st.titles[j] # t_st.titles[k]

\* 52 members, 51 asked for, from a source that serves up to 60 within
\* cmlimit: a page of 50 and a page of 1
C5_Witness ==
    /\ t_st.pc = "returned"
    /\ t_env = [K |-> 52, P |-> 60, honors |-> TRUE, max_coasters |-> 51]
    /\ Len(t_st.reqs) = 2
    /\ t_st.reqs[2].cmlimit = 1
    /\ Len(t_st.titles) = 51

\* get_coaster_titles run to its end: the loop is sequential and every
\* request returns or raises within its timeout (line 30), so a step that
\* is possible is taken
SpecTitlesLive == InitTitles /\ [][NextTitles]_vars /\ WF_vars(NextTitles)

\* the response to the last request issued
LastListing ==
    LET r == t_st.reqs[Len(t_st.reqs)]
    IN  ListingResponse(t_env, r.cmlimit, r.cmcontinue)

\* a step that issues a listing request
RequestIssued == Len(t_st'.reqs) > Len(t_st.reqs)

\* C14: a listing request is issued only while fewer than max_coasters
\* titles are held (so never when max_coasters = 0) and only when the
\* response before it, if any, carried a continuation token; and the
\* call returns.
C14_TitlesTerminate ==
    /\ [][RequestIssued =>
            /\ t_env.max_coasters # 0
            /\ Len(t_st.titles) < t_env.max_coasters
            /\ t_st.reqs # <<>> => LastListing.continue # 0]_vars
    /\ <>(t_st.pc = "returned")

\* a category without members: one request, answered with zero members
\* and no token, and the call has returned
C14_Witness ==
    /\ t_st.pc = "returned"
    /\ t_env.K = 0
    /\ t_env.max_coasters = 3
    /\ Len(t_st.reqs) = 1
    /\ LastListing.members = <<>>
    /\ LastListing.continue = 0
    /\ t_st.titles = <<>>

-----------------------------------------------------------------------------
(* extract_infobox_fields *)

\* A line of wikitext is a sequence of pieces: " " is white space, "|"
\* and "=" are themselves, every other piece is a word the code never
\* looks inside.

OpenMarker == "{{infobox roller coaster"

\* str.lower() of a piece
LowerPiece(p) ==
    CASE p = "{{Infobox Roller Coaster" -> OpenMarker
      [] p = "Speed" -> "speed"
      [] OTHER -> p

\* str.lower()
Lower(s) == [k \in DOMAIN s |-> LowerPiece(s[k])]

\* str.startswith(piece)
StartsWith(s, piece) == s # <<>> /\ s[1] = piece

\* lines 85-98: the stripped lines between the opening line of the
\* infobox and the first line after it that starts with }}
RECURSIVE InfoLines(_, _)
InfoLines(lines, inside) ==
    IF lines = <<>> THEN <<>>
    ELSE LET stripped == Strip(Head(lines))
         IN  IF ~inside /\ StartsWith(Lower(stripped), OpenMarker)
             THEN InfoLines(Tail(lines), TRUE)
             ELSE IF inside
                  THEN IF StartsWith(stripped, "}}") THEN <<>>
                       ELSE <<stripped>> \o InfoLines(Tail(lines), TRUE)
                  ELSE InfoLines(Tail(lines), FALSE)

\* position of the first "=" of s, 0 when there is none
RECURSIVE FirstEq(_, _)
FirstEq(s, k) ==
    IF k > Len(s) THEN 0 ELSE IF s[k] = "=" THEN k ELSE FirstEq(s, k + 1)

\* raw_fields[key] = value
Put(map, key, value) ==
    [x \in DOMAIN map \cup {key} |-> IF x = key THEN value ELSE map[x]]

\* lines 101-111: key/value pairs of the lines "| key = value"
RECURSIVE ParseFields(_, _)
ParseFields(info_lines, raw) ==
    IF info_lines = <<>> THEN raw
    ELSE LET line == Head(info_lines)
             rest == Tail(line)
             e == FirstEq(rest, 1)
         IN  IF ~StartsWith(line, "|") \/ e = 0
             THEN ParseFields(Tail(info_lines), raw)
             ELSE ParseFields(Tail(info_lines),
                              Put(raw, Lower(Strip(SubSeq(rest, 1, e - 1))),
                                  Strip(SubSeq(rest, e + 1, Len(rest)))))

RECURSIVE pick_last(_, _)
pick_last(raw, keys) ==
    IF keys = <<>> THEN <<>>
    ELSE IF <<keys[Len(keys)]>> \in DOMAIN raw THEN raw[<<keys[Len(keys)]>>]
    ELSE pick_last(raw, SubSeq(keys, 1, Len(keys) - 1))

\* lines 119-123: the value of the first of keys that raw_fields holds
RECURSIVE pick(_, _)
pick(raw, keys) ==
    IF keys = <<>> THEN <<>>
    ELSE IF <<Head(keys)>> \in DOMAIN raw THEN raw[<<Head(keys)>>]
    ELSE pick(raw, Tail(keys))

F(field, aliases) == [field |-> field, aliases |-> aliases]

\* lines 126-175: the output fields and the raw keys each is read from
FieldAliases ==
    << F("name", <<"name">>),
       F("park", <<"park">>),
       F("location", <<"location">>),
       F("country", <<"country">>),
       F("state", <<"state">>),
       F("section", <<"section">>),
       F("coord_lat", <<"coord_lat", "latitude", "lat">>),
       F("coord_long", <<"coord_long", "longitude", "long", "lon">>),
       F("status", <<"status">>),
       F("opened", <<"opened", "openingdate", "opening_date", "opening_year">>),
       F("closed", <<"closed">>),
       F("manufacturer", <<"manufacturer">>),
       F("builder", <<"builder">>),
       F("designer", <<"designer">>),
       F("product", <<"product", "model">>),
       F("class", <<"class">>),
       F("type", <<"type", "coaster_type">>),
       F("speed", <<"speed", "top_speed">>),
       F("height", <<"height", "max_height">>),
       F("drop", <<"drop">>),
       F("angle", <<"angle">>),
       F("g_force", <<"g-force", "g_force", "gforce">>),
       F("inversions", <<"inversions">>),
       F("length", <<"length">>),
       F("duration", <<"duration">>),
       F("layout", <<"layout">>),
       F("lift_launch", <<"lift/launch", "lift", "launch", "lift_launch">>),
       F("min_height", <<"min_height", "minimum_height">>),
       F("min_height_unaccompanied", <<"min_height_unaccompanied">>),
       F("max_height", <<"max_height", "maximum_height">>),
       F("restriction", <<"restriction">>),
       F("riders_hour", <<"riders/hour", "riders_per_hour", "capacity">>),
       F("riders_train", <<"riders/train", "riders_per_train">>) >>

FieldNames == [k \in DOMAIN FieldAliases |-> FieldAliases[k].field]

AliasesOf(f) ==
    FieldAliases[CHOOSE k \in DOMAIN FieldAliases : FieldAliases[k].field = f].aliases

\* the wikitext argument: a str of lines, or None
Wikitext(lines) == [str |-> TRUE, lines |-> lines]

NoWikitext == [str |-> FALSE, lines |-> <<>>]

\* "if not wikitext": None or the empty string
Falsy(w) == ~w.str \/ w.lines = <<>>

\* raw_fields of a wikitext
RawFields(w) == ParseFields(InfoLines(w.lines, FALSE), EmptyMap)

\* lines 73-180
extract_infobox_fields(w) ==
    IF Falsy(w) THEN EmptyMap
    ELSE [f \in Range(FieldNames) |-> pick(RawFields(w), AliasesOf(f))]

\* Bound: lines of a wikitext
MaxLines == 4

SampleLines ==
    { <<"{{Infobox Roller Coaster">>,
      <<"}}">>,
      <<"|", " ", "speed", " ", "=", " ", "90", " ">>,
      <<"|", "top_speed", "=", "80">>,
      <<"|", "Speed", "=", "70", "=", "x">>,
      <<"|", "max_height">>,
      <<" ", "|", "max_height", " ", "=", "50">>,
      <<"height", "=", "40">> }

Wikitexts ==
    {NoWikitext} \cup {Wikitext(ls) : ls \in UNION {[1..n -> SampleLines] : n \in 0..MaxLines}}

ExtractInit ==
    /\ x_text \in Wikitexts
    /\ x_raw = EmptyMap
    /\ x_out = EmptyMap
    /\ x_pc = "call"

CallExtract ==
    /\ x_pc = "call"
    /\ x_raw' = IF Falsy(x_text) THEN EmptyMap ELSE RawFields(x_text)
    /\ x_out' = extract_infobox_fields(x_text)
    /\ x_pc' = "done"
    /\ UNCHANGED x_text

InitExtract ==
    /\ ExtractInit
    /\ QueryIdle /\ StatsIdle /\ LoopIdle /\ TitlesIdle /\ ScrapeIdle

NextExtract == CallExtract /\ UNCHANGED notExtract

SpecExtract == InitExtract /\ [][NextExtract]_vars

\* C8: for a non-empty wikitext the mapping returned has every output
\* field; a field holds the raw value of the first of its aliases that is
\* among the parsed keys, and the empty string when none is.
C8_FirstAliasWins ==
    (x_pc = "done" /\ ~Falsy(x_text)) =>
        /\ DOMAIN x_out = {FieldAliases[k].field : k \in 1..Len(FieldAliases)}
        /\ Cardinality(DOMAIN x_out) = 33
        /\ \A k \in 1..Len(FieldAliases) :
             LET a == FieldAliases[k].aliases
                 present == {j \in 1..Len(a) : <<a[j]>> \in DOMAIN x_raw}
             IN  IF present = {}
                 THEN x_out[FieldAliases[k].field] = <<>>
                 ELSE \E j \in present :
                        /\ \A h \in present : j <= h
                        /\ x_out[FieldAliases[k].field] = x_raw[<<a[j]>>]

\* an infobox with top_speed = 80 and then speed = 90: speed is 90
C8_Witness ==
    /\ x_pc = "done"
    /\ x_text = Wikitext(<< <<"{{Infobox Roller Coaster">>,
                            <<"|", "top_speed", "=", "80">>,
                            <<"|", " ", "speed", " ", "=", " ", "90", " ">>,
                            <<"}}">> >>)
    /\ DOMAIN x_raw = {<<"speed">>, <<"top_speed">>}
    /\ x_out["speed"] = <<"90">>
    /\ x_out["height"] = <<>>

-----------------------------------------------------------------------------
(* scrape_coasters *)

\* Bound: members of the category and max_coasters of a scrape
MaxScrape == 4

ScrapeEnvs ==
    [K : 0..MaxScrape, P : ServerPages, honors : BOOLEAN, max_coasters : 0..MaxScrape]

\* what fetch_infobox_wikitext returns: None, "", or a page's wikitext
FetchResults ==
    { NoWikitext,
      Wikitext(<<>>),
      Wikitext(<< <<"{{Infobox Roller Coaster">>,
                  <<"|", "top_speed", "=", "80">>, <<"}}">> >>),
      Wikitext(<< <<"height", "=", "40">> >>) }

Unbound == [bound |-> FALSE, title |-> 0, fields |-> EmptyMap]

NoFile == [exists |-> FALSE, fieldnames |-> <<>>, rows |-> <<>>]

ScrapeInit ==
    /\ c_titles = <<>>
    /\ c_got = <<>>
    /\ c_rows = <<>>
    /\ c_info = Unbound
    /\ c_file = NoFile
    /\ c_pc = "start"

\* line 183
ScrapeStart ==
    /\ c_pc = "start"
    /\ \E env \in ScrapeEnvs : c_titles' = get_coaster_titles(env)
    /\ c_pc' = "loop"
    /\ UNCHANGED <<c_got, c_rows, c_info, c_file>>

\* lines 188-198: one title
ScrapeOne ==
    /\ c_pc = "loop"
    /\ Len(c_got) < Len(c_titles)
    /\ \E w \in FetchResults :
         LET title == c_titles[Len(c_got) + 1]
             info == [bound |-> TRUE, title |-> title,
                      fields |-> extract_infobox_fields(w)]
         IN  IF Falsy(w)
             THEN /\ c_got' = Append(c_got, FALSE)
                  /\ UNCHANGED <<c_rows, c_info>>
             ELSE /\ c_got' = Append(c_got, TRUE)
                  /\ c_rows' = Append(c_rows, info)
                  /\ c_info' = info
    /\ UNCHANGED <<c_titles, c_file, c_pc>>

\* line 208: the rows that are written
WriteRows(rows, info) == Append(rows, info)

\* lines 201-216: after the loop. Reading info while no title gave a
\* wikitext raises UnboundLocalError before the file is opened.
ScrapeWrite ==
    /\ c_pc = "loop"
    /\ Len(c_got) = Len(c_titles)
    /\ IF ~c_info.bound
       THEN /\ c_pc' = "raised"
            /\ UNCHANGED <<c_rows, c_file>>
       ELSE /\ c_rows' = WriteRows(c_rows, c_info)
            /\ c_file' = [exists |-> TRUE,
                          fieldnames |-> <<"title">> \o FieldNames,
                          rows |-> c_rows']
            /\ c_pc' = "done"
    /\ UNCHANGED <<c_titles, c_got, c_info>>

InitScrape ==
    /\ ScrapeInit
    /\ QueryIdle /\ StatsIdle /\ LoopIdle /\ TitlesIdle /\ ExtractIdle

NextScrape ==
    \/ ScrapeStart /\ UNCHANGED notScrape
    \/ ScrapeOne /\ UNCHANGED notScrape
    \/ ScrapeWrite /\ UNCHANGED notScrape

SpecScrape == InitScrape /\ [][NextScrape]_vars

\* the titles whose content fetch returned a wikitext, in order
RECURSIVE Enriched(_)
Enriched(k) ==
    IF k = 0 THEN <<>>
    ELSE Enriched(k - 1) \o (IF c_got[k] THEN <<c_titles[k]>> ELSE <<>>)

\* C6: the rows written to coasters_basic.csv are one row per title whose
\* content fetch returned text, in title order.
C6_OneRowPerEnriched ==
    c_pc = "done" =>
        [k \in 1..Len(c_file.rows) |-> c_file.rows[k].title] = Enriched(Len(c_got))

\* C16: scrape_coasters never raises on its own, and when it has finished
\* coasters_basic.csv exists with its header, also when the title list is
\* empty or no title gave a wikitext.
C16_ScrapeCompletes ==
    /\ c_pc # "raised"
    /\ c_pc = "done" => c_file.exists /\ c_file.fieldnames # <<>>

=============================================================================
